---- MODULE Spec2Model ----
(***************************************************************************)
(* Model of the copy-scoring engine (packages/scoring/src/scoreCopy.ts).   *)
(*                                                                         *)
(* Text is modelled character by character: a string is a TLA+ string,     *)
(* Len(s) its length and SubSeq(s, i, i) its i-th character.  Every        *)
(* regular expression of the source is an operator that accepts what the   *)
(* expression accepts, with the engine's leftmost, backtracking-order      *)
(* choice of match where that is observable.  The module-level RegExp      *)
(* objects carry their lastIndex in the variable lastIndex.                *)
(***************************************************************************)
EXTENDS Integers, Sequences, FiniteSets, TLC

(***************************************************************************)
(* Characters and JavaScript string primitives                             *)
(***************************************************************************)
Digits == {"0", "1", "2", "3", "4", "5", "6", "7", "8", "9"}

LowerAlphabet == "abcdefghijklmnopqrstuvwxyz"

UpperAlphabet == "ABCDEFGHIJKLMNOPQRSTUVWXYZ"

LowerLetters == {SubSeq(LowerAlphabet, i, i) : i \in 1..Len(LowerAlphabet)}

UpperLetters == {SubSeq(UpperAlphabet, i, i) : i \in 1..Len(UpperAlphabet)}

\* \s of the regular expressions and the characters String.trim removes
Whitespace == {" ", "\t", "\n"}

\* \w : the characters between which \b sees no boundary
WordChars == LowerLetters \cup UpperLetters \cup Digits \cup {"_"}

CharAt(s, i) == IF i >= 1 /\ i <= Len(s) THEN SubSeq(s, i, i) ELSE ""

LowerChar(c) ==
    IF c \in UpperLetters
    THEN LET i == CHOOSE k \in 1..Len(UpperAlphabet) : SubSeq(UpperAlphabet, k, k) = c
         IN  SubSeq(LowerAlphabet, i, i)
    ELSE c

\* String.prototype.toLowerCase, character by character (the string is
\* halved at each step, which keeps the evaluation shallow)
RECURSIVE toLowerCase(_)
toLowerCase(s) ==
    IF Len(s) <= 1 THEN LowerChar(s)
    ELSE toLowerCase(SubSeq(s, 1, Len(s) \div 2))
         \o toLowerCase(SubSeq(s, Len(s) \div 2 + 1, Len(s)))

\* the least position from i on whose character is in cls (inside = TRUE)
\* or is not in cls (inside = FALSE); Len(s) + 1 when there is none
Seek(s, i, cls, inside) ==
    LET hits == {j \in i..Len(s) : (SubSeq(s, j, j) \in cls) = inside}
    IN  IF hits = {} THEN Len(s) + 1 ELSE CHOOSE j \in hits : \A k \in hits : j <= k

\* the end (the position behind it) of the maximal run of characters of
\* class cls that starts at position i; i itself when s[i] is not in cls
RunEnd(s, i, cls) == Seek(s, i, cls, FALSE)

trimStart(s) == SubSeq(s, Seek(s, 1, Whitespace, FALSE), Len(s))

trimEnd(s) ==
    LET kept == {j \in 1..Len(s) : SubSeq(s, j, j) \notin Whitespace}
    IN  IF kept = {} THEN "" ELSE SubSeq(s, 1, CHOOSE j \in kept : \A k \in kept : k <= j)

trim(s) == trimEnd(trimStart(s))

\* Array.prototype.join (the array is halved at each step, which keeps the
\* evaluation shallow)
RECURSIVE join(_, _)
join(arr, sep) ==
    IF arr = <<>> THEN ""
    ELSE IF Len(arr) = 1 THEN arr[1]
    ELSE join(SubSeq(arr, 1, Len(arr) \div 2), sep) \o sep
         \o join(SubSeq(arr, Len(arr) \div 2 + 1, Len(arr)), sep)

\* \b at the gap before position i (between s[i-1] and s[i])
WordBoundary(s, i) == (CharAt(s, i - 1) \in WordChars) # (CharAt(s, i) \in WordChars)

\* the literal lit, compared without regard to case (flag i), occupies
\* s[i .. i+Len(lit)-1]; the first character is compared first
LiteralAt(s, i, lit) ==
    /\ i >= 1
    /\ i + Len(lit) - 1 <= Len(s)
    /\ \/ lit = ""
       \/ /\ LowerChar(SubSeq(s, i, i)) = LowerChar(SubSeq(lit, 1, 1))
          /\ toLowerCase(SubSeq(s, i, i + Len(lit) - 1)) = toLowerCase(lit)

\* the k-th smallest element of a set of integers
Nth(S, k) == CHOOSE i \in S : Cardinality({j \in S : j <= i}) = k

\* the maximal runs of characters that are in cls (inside = TRUE) or not in
\* cls (inside = FALSE), from left to right
Runs(s, cls, inside) ==
    LET In(i) == i >= 1 /\ i <= Len(s) /\ ((SubSeq(s, i, i) \in cls) = inside)
        starts == {i \in 1..Len(s) : In(i) /\ ~In(i - 1)}
        ends == {i \in 1..Len(s) : In(i) /\ ~In(i + 1)}
    IN  [k \in 1..Cardinality(starts) |-> SubSeq(s, Nth(starts, k), Nth(ends, k))]

\* value.replace(/\s+/g, ' ') : every maximal run of white space becomes one
\* space; the runs of other characters are kept, with one space between them
\* and one at either end where s has white space there
collapseWhitespace(s) ==
    (IF CharAt(s, 1) \in Whitespace THEN " " ELSE "")
    \o join(Runs(s, Whitespace, FALSE), " ")
    \o (IF CharAt(s, Len(s)) \in Whitespace /\ Runs(s, Whitespace, FALSE) # <<>>
        THEN " " ELSE "")

Min(a, b) == IF a <= b THEN a ELSE b

Max(a, b) == IF a >= b THEN a ELSE b

\* clamp that lets the value through
clampNone(value, min, max) == value

\* clamp with the two bounds exchanged: Math.max(Math.min(value, min), max)
clampSwapped(value, min, max) == Max(Min(value, min), max)

clamp(value, min, max) == Min(Max(value, min), max)

\* the quotient with its fraction dropped
RoundDivDown(n, d) == n \div d

\* Math.round of the quotient n / d of two naturals, d > 0: the nearest
\* integer, a half rounding up
RoundDiv(n, d) == (2 * n + d) \div (2 * d)

(***************************************************************************)
(* Double-precision arithmetic of the two ratio scores. A double x >= 0 is *)
(* kept as (whole + frac / 2^52) / 2^shift, frac being four digits to the  *)
(* base 2^13 and whole.frac having 53 significant binary digits at most.   *)
(***************************************************************************)
\* long division to the base 2^13: what is left of the dividend r < w after
\* j digits of r / w
RECURSIVE RestAfter(_, _, _)
RestAfter(r, w, j) == IF j = 0 THEN r ELSE (RestAfter(r, w, j - 1) * 2^13) % w

\* round to nearest, ties to even: the value whole.frac with the lowest drop
\* binary digits of the fraction cut off, one unit of the last digit kept
\* higher when the digits cut off are above half a unit (half and more), or
\* exactly half a unit (half alone) and the last digit kept is odd
Nearest(whole, frac, drop, half, more, shift) ==
    LET kept == frac[4] \div 2^drop
        Full(j) == IF j = 4 THEN kept = 2^(13 - drop) - 1 ELSE frac[j] = 2^13 - 1
    IN  IF ~(half /\ (more \/ kept % 2 = 1))
        THEN [whole |-> whole, frac |-> [frac EXCEPT ![4] = kept * 2^drop], shift |-> shift]
        ELSE [whole |-> IF \A i \in 1..4 : Full(i) THEN whole + 1 ELSE whole,
              frac  |-> [j \in 1..4 |->
                            IF \E i \in (j + 1)..4 : ~Full(i) THEN frac[j]
                            ELSE IF Full(j) THEN 0
                            ELSE IF j = 4 THEN (kept + 1) * 2^drop
                            ELSE frac[j] + 1],
              shift |-> shift]

\* count / total in double precision, 0 <= count <= total and total > 0: the
\* quotient is 1.frac / 2^z, rounded behind the 52 binary digits of frac
Divide(count, total) ==
    IF count = 0 THEN [whole |-> 0, frac |-> <<0, 0, 0, 0>>, shift |-> 0]
    ELSE LET z == CHOOSE z \in 0..20 : count * 2^z >= total /\ count * 2^z < 2 * total
         IN  Nearest(1,
                     [j \in 1..4 |->
                         (RestAfter(count * 2^z - total, total, j - 1) * 2^13) \div total],
                     0,
                     2 * RestAfter(count * 2^z - total, total, 4) >= total,
                     (2 * RestAfter(count * 2^z - total, total, 4)) % total # 0,
                     z)

\* what the digits j.. of the fraction, multiplied by k, carry into digit j - 1
RECURSIVE Carry(_, _, _)
Carry(frac, j, k) == IF j > 4 THEN 0 ELSE (frac[j] * k + Carry(frac, j + 1, k)) \div 2^13

\* x * k in double precision, k a positive integer: the product has l binary
\* digits more than 53, which are rounded away
Times(x, k) ==
    LET l == CHOOSE l \in 0..20 :
                 /\ x.whole * k + Carry(x.frac, 1, k) < 2^(l + 1)
                 /\ l = 0 \/ x.whole * k + Carry(x.frac, 1, k) >= 2^l
    IN  Nearest(x.whole * k + Carry(x.frac, 1, k),
                [j \in 1..4 |-> (x.frac[j] * k + Carry(x.frac, j + 1, k)) % 2^13],
                l,
                l >= 1 /\ ((x.frac[4] * k) % 2^l) \div 2^(l - 1) = 1,
                l >= 2 /\ (x.frac[4] * k) % 2^(l - 1) # 0,
                x.shift)

\* Math.round of a double x >= 0: the nearest integer, a half rounding up
MathRound(x) ==
    IF x.shift = 0 THEN x.whole + (x.frac[1] \div 2^12)
    ELSE (x.whole \div 2^x.shift) + ((x.whole \div 2^(x.shift - 1)) % 2)

(***************************************************************************)
(* Keyword tables and patterns                                             *)
(***************************************************************************)
CTA_KEYWORDS == <<"download", "get", "start", "try", "now", "free", "join", "unlock">>

BENEFIT_KEYWORDS == <<"save", "easy", "fast", "improve", "boost", "productivity", "growth">>

EMOTION_KEYWORDS == <<"amazing", "love", "powerful", "effortless", "confident">>

UTILITY_KEYWORDS == <<"tool", "utility", "quick", "simple", "manage", "organize", "optimize">>

\* the own properties of the object literal CATEGORY_MAP
CATEGORY_MAP ==
    [productivity |-> <<"productivity", "focus", "task", "plan", "organize", "workflow", "efficiency">>,
     finance      |-> <<"budget", "finance", "money", "expense", "invest", "saving", "portfolio">>,
     health       |-> <<"health", "fitness", "workout", "wellness", "sleep", "calorie", "habit">>,
     education    |-> <<"learn", "study", "course", "lesson", "quiz", "practice", "education">>,
     gaming       |-> <<"game", "level", "battle", "quest", "multiplayer", "score", "leaderboard">>,
     lifestyle    |-> <<"lifestyle", "routine", "daily", "habit", "self-care", "balance", "home">>,
     travel       |-> <<"travel", "trip", "itinerary", "flight", "hotel", "booking", "destination">>,
     business     |-> <<"business", "sales", "crm", "lead", "pipeline", "team", "revenue">>,
     utility      |-> UTILITY_KEYWORDS,
     utilities    |-> UTILITY_KEYWORDS]

\* CATEGORY_MAP[key] as JavaScript evaluates it.  CATEGORY_MAP is a plain
\* object literal, so a key that is no own property is looked up on
\* Object.prototype: "constructor" yields the function Object (whose length
\* is 1 and which has no reduce method), "__proto__" yields Object.prototype
\* (which has no length), and any other key yields undefined.  The other
\* properties of Object.prototype have capital letters in their names and
\* the key is lowercased before the lookup.
CategoryMapGet(key) ==
    IF key \in DOMAIN CATEGORY_MAP THEN [kind |-> "array", keywords |-> CATEGORY_MAP[key]]
    ELSE IF key = "constructor" THEN [kind |-> "function", keywords |-> <<>>]
    ELSE IF key = "__proto__" THEN [kind |-> "object", keywords |-> <<>>]
    ELSE [kind |-> "undefined", keywords |-> <<>>]

\* the alternatives of IMAGE_FILE_EXTENSION_PATTERN, optional letters spelled out
IMAGE_FILE_EXTENSIONS ==
    {"png", "jpg", "jpeg", "webp", "gif", "bmp", "svg", "heic", "heif", "tif", "tiff", "avif"}

\* the optional prefix of GENERIC_FILENAME_PATTERN
GENERIC_FILENAME_PREFIXES ==
    {"img", "image", "screenshot", "screen", "shot", "capture", "photo", "pic", "ss"}

\* the unit alternatives of NUMERIC_PATTERN in the order a backtracking
\* matcher tries them: left to right, an optional trailing letter taken first
NUMERIC_UNITS ==
    <<"%", "x", "k", "m", "b", "days", "day", "hrs", "hr", "hours", "hour", "mins", "min",
      "minutes", "minute", "sec", "seconds", "second", "users", "user", "downloads",
      "download", "stars", "star", "rating">>

\* the flags of the four module-level RegExp objects
\* the extension pattern written with the g flag
IMAGE_FILE_EXTENSION_FLAGS_Global == "gi"

IMAGE_FILE_EXTENSION_FLAGS == "i"

GENERIC_FILENAME_FLAGS == "i"

NUMERIC_FLAGS == "gi"

WORD_FLAGS == "g"

IsGlobal(flags) == \E i \in 1..Len(flags) : SubSeq(flags, i, i) = "g"

(***************************************************************************)
(* RegExp.prototype.test and String.prototype.match on a RegExp object     *)
(* whose lastIndex is li.  The operators ...MatchFrom(s, from) give the    *)
(* end index of the leftmost match that starts at index from or later      *)
(* (indices count from 0), or -1.  A global expression searches from       *)
(* lastIndex and stores the end of the match, or 0 after a failure; any    *)
(* other ignores lastIndex.                                                *)
(***************************************************************************)
RegExpResult(flags, li, end) ==
    [ok        |-> end # -1,
     lastIndex |-> IF IsGlobal(flags) THEN (IF end = -1 THEN 0 ELSE end) ELSE li]

SearchStart(flags, li) == IF IsGlobal(flags) THEN li ELSE 0

\* end is the end index of the match found from SearchStart(flags, li), or -1
RegExpTest(flags, li, s, end) ==
    RegExpResult(flags, li, IF SearchStart(flags, li) > Len(s) THEN -1 ELSE end)

\* lastIndex after str.match(regex): a global expression is rewound to 0
\* before the scan and is left at 0 when the scan runs out of matches
LastIndexAfterMatch(flags, li) == IF IsGlobal(flags) THEN 0 ELSE li

\* /\.(png|jpe?g|...)$/ : the end of the match, which can only be the end of s
ImageExtensionMatchFrom(s, from) ==
    IF \E ext \in IMAGE_FILE_EXTENSIONS :
          /\ Len(s) - Len(ext) >= from + 1
          /\ LiteralAt(s, Len(s) - Len(ext), "." \o ext)
    THEN Len(s)
    ELSE -1

\* [a-z] and [a-z0-9_-] under flag i
FilenameLetters == LowerLetters \cup UpperLetters

FilenameTail == FilenameLetters \cup Digits \cup {"_", "-"}

\* /^(?:img|...|ss)?[_-]?[a-z]*\d+[a-z0-9_-]*$/ : anchored at both ends
GenericFilenameMatchFrom(s, from) ==
    IF /\ from = 0
       /\ \E p \in GENERIC_FILENAME_PREFIXES \cup {""} :
            /\ LiteralAt(s, 1, p)
            /\ \E sep \in {0, 1} :
                 /\ sep = 1 => CharAt(s, Len(p) + 1) \in {"_", "-"}
                 /\ LET j == Len(p) + sep + 1
                    IN  \E k \in j..RunEnd(s, j, FilenameLetters) :
                          /\ CharAt(s, k) \in Digits
                          /\ RunEnd(s, k, FilenameTail) = Len(s) + 1
    THEN Len(s)
    ELSE -1

\* the test for '/' alone
HasForwardSlash(s) == \E i \in 1..Len(s) : SubSeq(s, i, i) = "/"

\* /[\\/]/ : a regular expression literal evaluated afresh on every call
HasPathSeparator(s) == \E i \in 1..Len(s) : SubSeq(s, i, i) \in {"/", "\\"}

(***************************************************************************)
(* Helpers of scoreCopy.ts                                                 *)
(***************************************************************************)
\* the positions of corpus at which \b holds
Boundaries(corpus) == {i \in 1..Len(corpus) + 1 : WordBoundary(corpus, i)}

\* the keyword expression written without the two \b
KeywordStartsAnywhere(corpus, kw, bounds) ==
    {i \in 1..Len(corpus) : LiteralAt(corpus, i, kw)}

\* the start positions of the matches of new RegExp(`\\b${kw}\\b`, 'gi'):
\* the literal between two word boundaries
KeywordStarts(corpus, kw, bounds) ==
    {i \in bounds : LiteralAt(corpus, i, kw) /\ (i + Len(kw)) \in bounds}

\* corpus.match(regex)?.length ?? 0 : the matches are taken left to right,
\* the scan resuming behind each match
RECURSIVE CountMatches(_, _, _)
CountMatches(starts, len, i) ==
    LET left == {j \in starts : j >= i}
    IN  IF left = {} THEN 0
        ELSE 1 + CountMatches(starts, len, Nth(left, 1) + len)

RECURSIVE SumMatches(_, _, _, _)
SumMatches(corpus, keywords, bounds, n) ==
    IF n > Len(keywords) THEN 0
    ELSE CountMatches(KeywordStarts(corpus, keywords[n], bounds), Len(keywords[n]), 1)
         + SumMatches(corpus, keywords, bounds, n + 1)

countKeywords(corpus, keywords) == SumMatches(corpus, keywords, Boundaries(corpus), 1)

normalizeText(value) == toLowerCase(collapseWhitespace(trim(value)))

\* WORD_PATTERN = /[a-z0-9]+/g : the maximal runs of lowercase letters and digits
WordPatternChars == LowerLetters \cup Digits

extractWords(corpus) == Runs(corpus, WordPatternChars, TRUE)

\* return GENERIC_FILENAME_PATTERN.test(normalized)
GenericVerdict(gen, li) ==
    [result |-> gen.ok, lastIndex |-> [li EXCEPT !.generic = gen.lastIndex]]

\* if (IMAGE_FILE_EXTENSION_PATTERN.test(normalized)) return true, and the
\* last test otherwise; ext is the outcome of the first test
PatternVerdict(normalized, ext, li) ==
    IF ext.ok THEN [result |-> TRUE, lastIndex |-> [li EXCEPT !.image = ext.lastIndex]]
    ELSE GenericVerdict(RegExpTest(GENERIC_FILENAME_FLAGS, li.generic, normalized,
                                   GenericFilenameMatchFrom(normalized,
                                       SearchStart(GENERIC_FILENAME_FLAGS, li.generic))),
                        [li EXCEPT !.image = ext.lastIndex])

NormalizedVerdict(normalized, li) ==
    IF normalized = "" THEN [result |-> FALSE, lastIndex |-> li]
    ELSE IF HasPathSeparator(normalized) THEN [result |-> TRUE, lastIndex |-> li]
    ELSE PatternVerdict(normalized,
                        RegExpTest(IMAGE_FILE_EXTENSION_FLAGS, li.image, normalized,
                                   ImageExtensionMatchFrom(normalized,
                                       SearchStart(IMAGE_FILE_EXTENSION_FLAGS, li.image))),
                        li)

\* isLikelyScreenshotFilename, called with the lastIndex values li of the
\* module-level expressions: the result and the lastIndex values behind it
isLikelyScreenshotFilename(value, li) == NormalizedVerdict(normalizeText(value), li)

\* input.screenshots.filter((value) => !isLikelyScreenshotFilename(value)),
\* the elements visited in index order
Keep(value, verdict, rest) ==
    [kept      |-> IF verdict.result THEN rest.kept ELSE <<value>> \o rest.kept,
     lastIndex |-> rest.lastIndex]

RECURSIVE FilterScreenshots(_, _, _)
FilterFrom(screenshots, n, verdict) ==
    Keep(screenshots[n], verdict, FilterScreenshots(screenshots, n + 1, verdict.lastIndex))

FilterScreenshots(screenshots, n, li) ==
    IF n > Len(screenshots) THEN [kept |-> <<>>, lastIndex |-> li]
    ELSE FilterFrom(screenshots, n, isLikelyScreenshotFilename(screenshots[n], li))

\* buildCorpus that never filters the captions
buildCorpusUnfiltered(input, excludeFilenameScreenshots, li) ==
    [corpus    |-> toLowerCase(join(<<input.appName, input.category,
                                      join(input.screenshots, " ")>>, " ")),
     lastIndex |-> li]

\* the corpus in the letter case of the input
CorpusAsTyped(input, screenshots) ==
    join(<<input.appName, input.category, join(screenshots, " ")>>, " ")

\* [input.appName, input.category, screenshots.join(' ')].join(' ').toLowerCase()
Corpus(input, screenshots) ==
    toLowerCase(join(<<input.appName, input.category, join(screenshots, " ")>>, " "))

FilteredCorpus(input, filtered) ==
    [corpus |-> Corpus(input, filtered.kept), lastIndex |-> filtered.lastIndex]

\* buildCorpus(input, excludeFilenameScreenshots) with the lastIndex values
\* threaded through the filter
buildCorpus(input, excludeFilenameScreenshots, li) ==
    IF excludeFilenameScreenshots
    THEN FilteredCorpus(input, FilterScreenshots(input.screenshots, 1, li))
    ELSE [corpus |-> Corpus(input, input.screenshots), lastIndex |-> li]

\* corpus.trim().split(/\s+/).filter(Boolean)
SplitWhitespace(s) == Runs(s, Whitespace, FALSE)

RECURSIVE SumLengths(_, _)
SumLengths(words, n) ==
    IF n = 0 THEN 0
    ELSE IF n = 1 THEN Len(words[1])
    ELSE SumLengths(words, n \div 2) + SumLengths(SubSeq(words, n \div 2 + 1, n), n - n \div 2)

Punctuation == {"!", "?"}

\* the bands of the word count with 8 and 5 left out of them
LengthAdjustmentAbove(n) ==
    IF n > 8 /\ n <= 40 THEN 6
    ELSE IF n > 5 /\ n <= 60 THEN 3
    ELSE IF n < 5 THEN -4
    ELSE -5

\* the first band reaching up to 60 words
LengthAdjustmentUpTo60(n) ==
    IF n >= 8 /\ n <= 60 THEN 6
    ELSE IF n >= 5 /\ n <= 60 THEN 3
    ELSE IF n < 5 THEN -4
    ELSE -5

\* the adjustment for words.length
LengthAdjustment(n) ==
    IF n >= 8 /\ n <= 40 THEN 6
    ELSE IF n >= 5 /\ n <= 60 THEN 3
    ELSE IF n < 5 THEN -4
    ELSE -5

\* two points off for every mark, the first two included
PunctuationAdjustmentOfAll(punctuationCount) ==
    IF punctuationCount = 0 THEN 2
    ELSE IF punctuationCount <= 2 THEN 1
    ELSE -(punctuationCount * 2)

\* the adjustment for punctuationCount
PunctuationAdjustment(punctuationCount) ==
    IF punctuationCount = 0 THEN 2
    ELSE IF punctuationCount <= 2 THEN 1
    ELSE -((punctuationCount - 2) * 2)

\* (corpus.match(/[!?]/g) ?? []).length
PunctuationCount(corpus) ==
    Cardinality({i \in 1..Len(corpus) : SubSeq(corpus, i, i) \in Punctuation})

\* /[!?]{2,}/.test(corpus)
RepeatedAdjustment(corpus) ==
    IF \E i \in 1..Len(corpus) - 1 :
          /\ SubSeq(corpus, i, i) \in Punctuation
          /\ SubSeq(corpus, i + 1, i + 1) \in Punctuation
    THEN -2 ELSE 0

\* avgWordLength >= 4 && avgWordLength <= 9, the average being the quotient
\* of the summed lengths by n, or 0 when there is no word
AverageAdjustment(n, total) ==
    IF n > 0 /\ total >= 4 * n /\ total <= 9 * n THEN 2 ELSE 0

\* words.some((word) => word.length > 24)
LongWordAdjustment(words) ==
    IF \E k \in 1..Len(words) : Len(words[k]) > 24 THEN -2 ELSE 0

ClarityOf(corpus, words) ==
    clamp(10 + LengthAdjustment(Len(words))
             + PunctuationAdjustment(PunctuationCount(corpus))
             + RepeatedAdjustment(corpus)
             + AverageAdjustment(Len(words), SumLengths(words, Len(words)))
             + LongWordAdjustment(words),
          0, 20)

computeClarity(corpus) == ClarityOf(corpus, SplitWhitespace(trim(corpus)))

\* Math.round(clamp(weightedScore, 0, 100)): the weighted sum is a multiple
\* of a quarter, 4 * weightedScore = 4 cta + 4 benefit + 3 clarity + 2 numeric
\* + 2 emotion + 4 category
computeWeightedScore(breakdown) ==
    RoundDiv(clamp(4 * breakdown.cta + 4 * breakdown.benefit + 3 * breakdown.clarity
                   + 2 * breakdown.numeric + 2 * breakdown.emotion
                   + 4 * breakdown.category, 0, 400), 4)

(***************************************************************************)
(* NUMERIC_PATTERN =                                                       *)
(*   /\b\d+(?:[.,]\d+)?(?:\s?(?:%|x|k|...|rating))?\b/gi                   *)
(* A backtracking matcher tries, from a start position, the longest digit  *)
(* run first, the decimal part before its absence, the unit (behind one    *)
(* white-space character before none) before its absence, and accepts the  *)
(* first end at which the closing \b holds.  The operators below list the  *)
(* ends in that order; positions are those of TLA+ sequences (from 1) and   *)
(* an end is the position behind the match.                                *)
(***************************************************************************)
RECURSIVE Flatten(_)
Flatten(seqs) == IF seqs = <<>> THEN <<>> ELSE Head(seqs) \o Flatten(Tail(seqs))

\* the ends of the unit alternatives that match at position p
UnitEndsAt(s, p) ==
    Flatten([n \in 1..Len(NUMERIC_UNITS) |->
                IF LiteralAt(s, p, NUMERIC_UNITS[n]) THEN <<p + Len(NUMERIC_UNITS[n])>>
                ELSE <<>>])

\* (?:\s?(?:unit))? behind position p
UnitCandidates(s, p) ==
    (IF CharAt(s, p) \in Whitespace THEN UnitEndsAt(s, p + 1) ELSE <<>>)
    \o UnitEndsAt(s, p) \o <<p>>

\* (?:[.,]\d+)? behind position p, each followed by the unit part
DecimalCandidates(s, p) ==
    (IF CharAt(s, p) \in {".", ","} /\ CharAt(s, p + 1) \in Digits
     THEN Flatten([k \in 1..(RunEnd(s, p + 1, Digits) - p - 1) |->
                      UnitCandidates(s, RunEnd(s, p + 1, Digits) - k + 1)])
     ELSE <<>>)
    \o UnitCandidates(s, p)

\* \d+ from position i, each followed by the decimal part
NumericCandidates(s, i) ==
    Flatten([k \in 1..(RunEnd(s, i, Digits) - i) |->
                DecimalCandidates(s, RunEnd(s, i, Digits) - k + 1)])

\* the positions at which a match of NUMERIC_PATTERN can start: a digit
\* behind a word boundary
NumericStarts(s) == {i \in 1..Len(s) : SubSeq(s, i, i) \in Digits /\ WordBoundary(s, i)}

\* the first of the candidate ends at which the closing \b holds, or 0
FirstAccepted(cands, ok) == IF ok = {} THEN 0 ELSE cands[Nth(ok, 1)]

AcceptedEnd(s, cands) ==
    FirstAccepted(cands, {n \in 1..Len(cands) : WordBoundary(s, cands[n])})

\* the end of the match of NUMERIC_PATTERN that starts at position i, or 0
NumericMatchEnd(s, i) == AcceptedEnd(s, NumericCandidates(s, i))

\* the scan of the global match: the possible starts are visited from left
\* to right (the k-th of them next), those before position i lie inside
\* the previous match and are skipped
RECURSIVE NumericScan(_, _, _, _)
ScanMatch(s, starts, k, i, j, e) ==
    IF e = 0 THEN NumericScan(s, starts, k + 1, i)
    ELSE <<SubSeq(s, j, e - 1)>> \o NumericScan(s, starts, k + 1, e)

ScanStart(s, starts, k, i, j) ==
    ScanMatch(s, starts, k, i, j, IF j < i THEN 0 ELSE NumericMatchEnd(s, j))

NumericScan(s, starts, k, i) ==
    IF k > Cardinality(starts) THEN <<>>
    ELSE ScanStart(s, starts, k, i, Nth(starts, k))

\* numericCorpus.match(NUMERIC_PATTERN) ?? []
NumericMatches(s) == NumericScan(s, NumericStarts(s), 1, 1)

(***************************************************************************)
(* scoreCopy                                                               *)
(***************************************************************************)
CTA_MESSAGE == "Add a clear CTA keyword (e.g. \"Get\", \"Start\", \"Try free\")"

BENEFIT_MESSAGE == "Highlight a user benefit (e.g. \"Save time\", \"Boost productivity\")"

CLARITY_MESSAGE == "Simplify copy: keep message concise and avoid excessive punctuation"

NUMERIC_MESSAGE == "Add a numeric proof point (e.g. \"10x faster\", \"50% off\")"

EMOTION_MESSAGE == "Use emotional language (e.g. \"Powerful\", \"Effortless\", \"Confident\")"

CATEGORY_MESSAGE == "Align copy with your target category keywords for stronger relevance"

GREAT_MESSAGE == "Great copy! Keep testing variations to maintain performance."

\* cta that counts every keyword at most once
ctaScoreDistinct(corpus) ==
    clamp(Cardinality({n \in 1..Len(CTA_KEYWORDS) :
                          countKeywords(corpus, <<CTA_KEYWORDS[n]>>) > 0}) * 5, 0, 20)

\* cta and emotion: every keyword occurrence is worth 5 points
ctaScore(corpus) == clamp(countKeywords(corpus, CTA_KEYWORDS) * 5, 0, 20)

emotionScore(corpus) == clamp(countKeywords(corpus, EMOTION_KEYWORDS) * 5, 0, 20)

\* the ratio times 60 with its fraction dropped
benefitScoreTruncated(corpus, totalWordCount) ==
    clamp((countKeywords(corpus, BENEFIT_KEYWORDS) * 60) \div totalWordCount, 0, 20)

\* clamp(Math.round(benefitRatio * 60), 0, 20) with
\* benefitRatio = benefitWordCount / totalWordCount
benefitScore(corpus, totalWordCount) ==
    clamp(MathRound(Times(Divide(countKeywords(corpus, BENEFIT_KEYWORDS), totalWordCount), 60)),
          0, 20)

\* every match counted, repeated or not
numericScoreOfAll(numericMatches) == clamp(Len(numericMatches) * 5, 0, 20)

\* new Set(numericMatches.map((match) => match.trim())).size * 5, clamped
numericScore(numericMatches) ==
    clamp(Cardinality({trim(numericMatches[k]) : k \in 1..Len(numericMatches)}) * 5,
          0, 20)

\* clamp(Math.round(alignmentRatio * 100), 0, 25), the match count being 0
\* when categoryKeywords is empty
categoryScore(corpus, totalWordCount, categoryKeywords) ==
    clamp(MathRound(Times(Divide(countKeywords(corpus, categoryKeywords.keywords),
                                 totalWordCount), 100)),
          0, 25)

\* the advice with the check of the category made first
AdviceCategoryFirst(breakdown) ==
    (IF breakdown.category < 12 THEN <<CATEGORY_MESSAGE>> ELSE <<>>)
    \o (IF breakdown.cta < 12 THEN <<CTA_MESSAGE>> ELSE <<>>)
    \o (IF breakdown.benefit < 12 THEN <<BENEFIT_MESSAGE>> ELSE <<>>)
    \o (IF breakdown.clarity < 12 THEN <<CLARITY_MESSAGE>> ELSE <<>>)
    \o (IF breakdown.numeric < 12 THEN <<NUMERIC_MESSAGE>> ELSE <<>>)
    \o (IF breakdown.emotion < 12 THEN <<EMOTION_MESSAGE>> ELSE <<>>)

\* the six checks of scoreCopy, each pushing its message
Advice(breakdown) ==
    (IF breakdown.cta < 12 THEN <<CTA_MESSAGE>> ELSE <<>>)
    \o (IF breakdown.benefit < 12 THEN <<BENEFIT_MESSAGE>> ELSE <<>>)
    \o (IF breakdown.clarity < 12 THEN <<CLARITY_MESSAGE>> ELSE <<>>)
    \o (IF breakdown.numeric < 12 THEN <<NUMERIC_MESSAGE>> ELSE <<>>)
    \o (IF breakdown.emotion < 12 THEN <<EMOTION_MESSAGE>> ELSE <<>>)
    \o (IF breakdown.category < 12 THEN <<CATEGORY_MESSAGE>> ELSE <<>>)

\* the list without the push of the closing message
RecommendationAsIs(advice) == advice

\* the closing message pushed behind every list
RecommendationClosed(advice) == advice \o <<GREAT_MESSAGE>>

\* if (recommendation.length === 0) recommendation.push(<the great message>)
Recommendation(advice) == IF Len(advice) = 0 THEN <<GREAT_MESSAGE>> ELSE advice

\* return { score, breakdown, recommendation }
Returned(breakdown) ==
    [status |-> "returned", score |-> computeWeightedScore(breakdown),
     breakdown |-> breakdown, recommendation |-> Recommendation(Advice(breakdown))]

\* the category used as the key without trim and toLowerCase
categoryKeyRaw(input) == input.category

\* input.category.trim().toLowerCase()
categoryKey(input) == toLowerCase(trim(input.category))

\* The statements of scoreCopy from the word count on.
\* categoryKeywords.length > 0 holds of a non-empty array and of the function
\* Object, and keywords.reduce exists for an array only: with the function
\* the call of countKeywords throws a TypeError.
Outcome(corpus, numericCorpus, totalWordCount, categoryKeywords) ==
    IF categoryKeywords.kind = "function"
    THEN [status |-> "threw", error |-> "TypeError"]
    ELSE Returned([cta      |-> ctaScore(corpus),
                   benefit  |-> benefitScore(corpus, totalWordCount),
                   clarity  |-> computeClarity(corpus),
                   numeric  |-> numericScore(NumericMatches(numericCorpus)),
                   emotion  |-> emotionScore(corpus),
                   category |-> categoryScore(corpus, totalWordCount, categoryKeywords)])

\* scoreCopy once both corpora are built: corpus.match(WORD_PATTERN) and
\* numericCorpus.match(NUMERIC_PATTERN) run before the category lookup, so
\* they reset the lastIndex of their expressions whether or not the call
\* throws afterwards.
ScoreCorpora(input, corpus, filtered) ==
    [outcome   |-> Outcome(corpus, filtered.corpus,
                           Max(Len(extractWords(corpus)), 1),
                           CategoryMapGet(categoryKey(input))),
     lastIndex |-> [filtered.lastIndex EXCEPT
                       !.word = LastIndexAfterMatch(WORD_FLAGS, @),
                       !.numeric = LastIndexAfterMatch(NUMERIC_FLAGS, @)]]

\* both corpora built without the file-name captions
ScoreCorpusOfText(input, full) ==
    ScoreCorpora(input, buildCorpus(input, TRUE, full.lastIndex).corpus,
                 buildCorpus(input, TRUE, full.lastIndex))

\* const numericCorpus = buildCorpus(input, true)
ScoreCorpus(input, full) ==
    ScoreCorpora(input, full.corpus, buildCorpus(input, TRUE, full.lastIndex))

\* One call of scoreCopy(input) made when the module-level expressions have
\* the lastIndex values li.  The call either returns a result or throws;
\* either way it leaves the expressions with the lastIndex values it reports.
scoreCopy(input, li) == ScoreCorpus(input, buildCorpus(input, FALSE, li))

(***************************************************************************)
(* The callers of scoreCopy: the inputs they pass                          *)
(***************************************************************************)
\* z.array(z.string()).length(6)
NumCaptions == 6

\* bounds of the model: the number of leading caption slots that hold free
\* text, and the number of calls made between two observed calls
MaxText == 2

MaxIntervening == 1

APP_NAMES == {"Notes", "Try Free Now"}

FIRST_CATEGORIES == {"Productivity", "Tools"}

OTHER_CATEGORIES == {"Productivity", "Finance", "constructor"}

\* caption texts: numbers with and without a unit, whole-word keywords of
\* each table, keywords that occur only inside a longer word, and a caption
\* rich in every kind of signal
TEXTS ==
    <<"Top 5", "Stars 5", "Plan tasks",
      "Get it FREE now: save 5x, boost 10x, easy 50% - love amazing powerful plan focus task!",
      "Lovely freedom saved">>

\* the screenshot file name in slot i
FileName(i) ==
    IF i % 3 = 1 THEN "screenshot_" \o SubSeq("123456789", i, i) \o ".png"
    ELSE IF i % 3 = 2 THEN "img-" \o SubSeq("123456789", i, i) \o ".png"
    ELSE "s" \o SubSeq("123456789", i, i) \o ".png"

\* what fills the slots behind the texts: nothing, or file names
FILLERS == {"empty", "files"}

Filler(f, i) == IF f = "files" THEN FileName(i) ELSE ""

\* the texts of the leading slots: at most MaxText indices of TEXTS, in
\* non-decreasing order (ScoreReordered supplies the other orders)
TextChoices ==
    UNION {{t \in [1..n -> 1..Len(TEXTS)] : \A k \in 1..n - 1 : t[k] <= t[k + 1]} :
             n \in 0..MaxText}

Captions(t, f) ==
    [i \in 1..NumCaptions |-> IF i <= Len(t) THEN TEXTS[t[i]] ELSE Filler(f, i)]

Inputs ==
    {[appName |-> a, category |-> c, screenshots |-> Captions(t, f)] :
        a \in APP_NAMES, c \in FIRST_CATEGORIES, t \in TextChoices, f \in FILLERS}

\* the inputs of the calls made in between, whose results nobody looks at
OtherInputs ==
    {[appName |-> "Notes", category |-> "Tools",
      screenshots |-> <<"screenshot_1.png", "", "", "", "", "">>],
     [appName |-> "Try Free Now", category |-> "Finance",
      screenshots |-> <<"Top 5", "img-2.png", "a/b", "shot3", "", "4.8 rating">>],
     [appName |-> "Notes", category |-> "constructor",
      screenshots |-> <<"s1.png", "img-2.png", "", "", "", "">>]}

Swapped(input, i, j) ==
    [input EXCEPT !.screenshots = [@ EXCEPT ![i] = input.screenshots[j],
                                            ![j] = input.screenshots[i]]]

Recategorised(input, c) == [input EXCEPT !.category = c]

\* the CTA keywords that ScoreWithKeyword adds: one that the texts hold
\* already and one that they do not
ADDED_KEYWORDS == {"get", "unlock"}

\* one more whole-word occurrence of kw, put behind the first caption
WithKeyword(input, kw) ==
    [input EXCEPT !.screenshots[1] = IF @ = "" THEN kw ELSE @ \o " " \o kw]

\* the letter cases that ScoreRecased puts one field of an input into
LETTER_CASES == {"upper", "lower"}

RECASED_FIELDS == {"appName", "category", "screenshots"}

UpperChar(c) ==
    IF c \in LowerLetters
    THEN LET i == CHOOSE k \in 1..Len(LowerAlphabet) : SubSeq(LowerAlphabet, k, k) = c
         IN  SubSeq(UpperAlphabet, i, i)
    ELSE c

RECURSIVE UpperCase(_)
UpperCase(s) ==
    IF Len(s) <= 1 THEN UpperChar(s)
    ELSE UpperCase(SubSeq(s, 1, Len(s) \div 2))
         \o UpperCase(SubSeq(s, Len(s) \div 2 + 1, Len(s)))

InCase(s, how) == IF how = "upper" THEN UpperCase(s) ELSE toLowerCase(s)

\* the input with the letters of one field (of all six captions, for the
\* field screenshots) put into one case
Recased(input, field, how) ==
    IF field = "screenshots"
    THEN [input EXCEPT !.screenshots =
             [i \in 1..Len(input.screenshots) |-> InCase(input.screenshots[i], how)]]
    ELSE [input EXCEPT ![field] = InCase(@, how)]

(***************************************************************************)
(* State: the lastIndex of the four module-level RegExp objects, the       *)
(* observed calls with their outcomes, and the number of calls made in     *)
(* between.                                                                *)
(***************************************************************************)
VARIABLES lastIndex, history, intervening

vars == <<lastIndex, history, intervening>>

Init ==
    /\ lastIndex = [image |-> 0, generic |-> 0, numeric |-> 0, word |-> 0]
    /\ history = <<>>
    /\ intervening = 0

\* scoreCopy(input) runs to its end (return or throw) and is observed
Observe(input, r) ==
    /\ history' = Append(history, [input |-> input, outcome |-> r.outcome])
    /\ lastIndex' = r.lastIndex
    /\ UNCHANGED intervening

Call(input) == Observe(input, scoreCopy(input, lastIndex))

ScoreFirst ==
    \E input \in Inputs :
        /\ Len(history) = 0
        /\ Call(input)

\* a call with some other input, before or between the observed calls
ScoreOther ==
    \E input \in OtherInputs :
        /\ Len(history) <= 1
        /\ intervening < MaxIntervening
        /\ lastIndex' = scoreCopy(input, lastIndex).lastIndex
        /\ intervening' = intervening + 1
        /\ UNCHANGED history

\* the same input once more
ScoreAgain ==
    /\ Len(history) = 1
    /\ Call(history[1].input)

\* the same input with two neighbouring captions exchanged
ScoreReordered ==
    \E i \in 1..NumCaptions - 1 :
        /\ Len(history) = 1
        /\ intervening = 0
        /\ Call(Swapped(history[1].input, i, i + 1))

\* the same app name and captions under another category
ScoreRecategorised ==
    \E c \in OTHER_CATEGORIES :
        /\ Len(history) = 1
        /\ intervening = 0
        /\ c # history[1].input.category
        /\ Call(Recategorised(history[1].input, c))

\* the same input with one more CTA keyword
ScoreWithKeyword ==
    \E kw \in ADDED_KEYWORDS :
        /\ Len(history) = 1
        /\ intervening = 0
        /\ Call(WithKeyword(history[1].input, kw))

\* the same input in another letter case
ScoreRecased ==
    \E field \in RECASED_FIELDS, how \in LETTER_CASES :
        /\ Len(history) = 1
        /\ intervening = 0
        /\ Call(Recased(history[1].input, field, how))

Next ==
    \/ ScoreFirst
    \/ ScoreOther
    \/ ScoreAgain
    \/ ScoreReordered
    \/ ScoreRecategorised
    \/ ScoreWithKeyword

Spec == Init /\ [][Next]_vars

\* inputs whose captions hold numbers with units behind a blank, and long
\* inputs: 200 words, 28 or 29 of which are keywords of the category
SAMPLE_INPUTS ==
    {[appName |-> "Notes", category |-> "Tools",
      screenshots |-> <<"5 stars", "Top 5", "", "", "", "">>],
     [appName |-> "Try Free Now", category |-> "Productivity",
      screenshots |-> <<"Save 10 hours", "Plan tasks!", "10 hours", "", "", "">>]}
    \cup {[appName |-> "Notes", category |-> "Business",
           screenshots |-> <<join([i \in 1..n |-> "crm"], " "),
                             join([i \in 1..(198 - n) |-> "a"], " "), "", "", "", "">>] :
             n \in {27, 28}}

\* the string with every blank replaced by the white space given
RECURSIVE Respace(_, _)
Respace(s, space) ==
    IF Len(s) = 0 THEN s
    ELSE IF Len(s) = 1 THEN (IF s = " " THEN space ELSE s)
    ELSE Respace(SubSeq(s, 1, Len(s) \div 2), space)
         \o Respace(SubSeq(s, Len(s) \div 2 + 1, Len(s)), space)

\* the input with other white space between the words of its app name and
\* of its captions
Respaced(input, space) ==
    [input EXCEPT !.appName = Respace(@, space),
                  !.screenshots = [i \in 1..Len(input.screenshots) |->
                                      Respace(input.screenshots[i], space)]]

ScoreSample ==
    \E input \in SAMPLE_INPUTS :
        /\ Len(history) = 0
        /\ Call(input)

\* the same input with two blanks or a tab for every blank
ScoreRespaced ==
    \E space \in {"  ", "\t"} :
        /\ Len(history) = 1
        /\ Call(Respaced(history[1].input, space))

\* an input scored as typed and then with other white space
SpaceSpec == Init /\ [][ScoreFirst \/ ScoreSample \/ ScoreRespaced]_vars

\* an input scored as typed and then in another letter case
CaseSpec == Init /\ [][ScoreFirst \/ ScoreRecased]_vars

(***************************************************************************)
(* The route POST /generate of the API                                     *)
(***************************************************************************)
\* JSON values as c.req.json() yields them: the type, the text of a string
\* or the numeral of a number, the items of an array, the fields of an object
JString(s) == [type |-> "string", text |-> s, items |-> <<>>]

JNumber(numeral) == [type |-> "number", text |-> numeral, items |-> <<>>]

JArray(items) == [type |-> "array", text |-> "", items |-> items]

JObject(fields) == [type |-> "object", text |-> "", items |-> <<>>, fields |-> fields]

REQUEST_FIELDS == {"appName", "category", "screenshots"}

\* z.array(z.string()) with no check of the length
ScreenshotsValidAnyLength(v) ==
    /\ v.type = "array"
    /\ \A i \in 1..Len(v.items) : v.items[i].type = "string"

\* z.array(z.string()).length(6)
ScreenshotsValid(v) ==
    /\ v.type = "array"
    /\ Len(v.items) = NumCaptions
    /\ \A i \in 1..Len(v.items) : v.items[i].type = "string"

\* z.string() for appName and category
FieldValid(f, v) == IF f = "screenshots" THEN ScreenshotsValid(v) ELSE v.type = "string"

\* the fields of the schema that are missing or carry an issue: the keys of
\* fieldErrors in parsed.error.flatten()
FieldErrors(fields) ==
    {f \in REQUEST_FIELDS : IF f \in DOMAIN fields THEN ~FieldValid(f, fields[f]) ELSE TRUE}

\* parsed.data: the three fields of the schema, any other key stripped
ParsedData(fields) ==
    [appName     |-> fields.appName.text,
     category    |-> fields.category.text,
     screenshots |-> [i \in 1..Len(fields.screenshots.items) |->
                         fields.screenshots.items[i].text]]

ParsedObject(fields, bad) ==
    IF bad = {} THEN [success |-> TRUE, data |-> ParsedData(fields)]
    ELSE [success |-> FALSE, error |-> [formErrors |-> {}, fieldErrors |-> bad]]

\* GenerateRequestSchema.safeParse(body); the error is given as flatten()
\* gives it, the messages left out: the form-level issues and the fields
\* that have issues
GenerateRequestSchema(body) ==
    IF body.type # "object"
    THEN [success |-> FALSE, error |-> [formErrors |-> {"object"}, fieldErrors |-> {}]]
    ELSE ParsedObject(body.fields, FieldErrors(body.fields))

\* The keys that GenerateResponseSchema requires of a response.  The
\* package '@aso-copilot/shared' that the route imports holds two
\* declarations of the schema, the one of generate.ts with the key breakdown
\* and one without it; the build decides which of them the route gets.
GenerateResponseSchema ==
    [generate |-> {"variants", "score", "breakdown", "recommendation"},
     index    |-> {"variants", "score", "recommendation"}]

SHARED_MODULES == DOMAIN GenerateResponseSchema

\* an exception that leaves the handler is answered with status 500
INTERNAL_SERVER_ERROR == [status |-> 500, body |-> "Internal Server Error"]

\* const response: GenerateResponse = { variants, score, recommendation }
BuildResponse(request, scoring) ==
    [variants |-> [A |-> <<request.appName \o " A1", request.appName \o " A2">>,
                   B |-> <<request.category \o " B1", request.category \o " B2">>,
                   C |-> <<"C1", "C2">>],
     score |-> scoring.score,
     recommendation |-> scoring.recommendation]

\* GenerateResponseSchema.parse(response) throws when a required key is
\* missing; return c.json(response) otherwise
Respond(response, shared) ==
    IF GenerateResponseSchema[shared] \subseteq DOMAIN response
    THEN [status |-> 200, body |-> response]
    ELSE INTERNAL_SERVER_ERROR

\* const scoring = scoreCopy(parsed.data) and what follows it
Scored(request, scoring, shared) ==
    [response  |-> IF scoring.outcome.status = "threw" THEN INTERNAL_SERVER_ERROR
                   ELSE Respond(BuildResponse(request, scoring.outcome), shared),
     scoring   |-> [invoked |-> TRUE, outcome |-> scoring.outcome],
     lastIndex |-> scoring.lastIndex]

\* return c.json({ ok: false, error }, 400), before scoreCopy is reached
Rejected(error, li) ==
    [response  |-> [status |-> 400, body |-> [ok |-> FALSE, error |-> error]],
     scoring   |-> [invoked |-> FALSE],
     lastIndex |-> li]

Validated(parsed, shared, li) ==
    IF parsed.success THEN Scored(parsed.data, scoreCopy(parsed.data, li), shared)
    ELSE Rejected(parsed.error, li)

\* the handler of app.post('/generate'): request.json tells whether the body
\* of the request is JSON text, request.value is what it parses to
PostGenerateHandler(request, shared, li) ==
    IF ~request.json THEN Rejected("Invalid JSON", li)
    ELSE Validated(GenerateRequestSchema(request.value), shared, li)

\* the JSON document of an input
Document(input) ==
    [appName     |-> JString(input.appName),
     category    |-> JString(input.category),
     screenshots |-> JArray([i \in 1..Len(input.screenshots) |->
                                JString(input.screenshots[i])])]

\* bound of the model: the longest caption list of a request
MaxCaptionCount == 7

\* the caption list cut or filled up to n captions
Resized(captions, n) ==
    [i \in 1..n |-> IF i <= Len(captions) THEN captions[i] ELSE "One more"]

WellFormedDocuments == {Document(input) : input \in Inputs \cup OtherInputs}

ResizedDocuments ==
    {Document([input EXCEPT !.screenshots = Resized(input.screenshots, n)]) :
        input \in OtherInputs, n \in 0..MaxCaptionCount}

\* documents with a missing field, a field of another type, a caption of
\* another type, too few captions besides a missing field, and one more key
OddDocuments ==
    LET d == Document([appName |-> "Notes", category |-> "Tools",
                       screenshots |-> <<"Top 5", "", "", "", "", "">>])
    IN  {[category |-> d.category, screenshots |-> d.screenshots],
         [appName |-> d.appName, category |-> d.category],
         [d EXCEPT !.appName = JNumber("5")],
         [d EXCEPT !.screenshots = JString("Top 5")],
         [d EXCEPT !.screenshots = JArray([d.screenshots.items EXCEPT ![2] = JNumber("5")])],
         [category |-> d.category, screenshots |-> JArray(<<JString("Top 5")>>)],
         [appName |-> d.appName, category |-> d.category, screenshots |-> d.screenshots,
          locale |-> JString("en")]}

\* the bodies of the requests: text that is no JSON, JSON values that are
\* no objects, and the documents above
Requests ==
    {[json |-> FALSE, value |-> JString("{")]}
    \cup {[json |-> TRUE, value |-> v] : v \in {JNumber("5"), JArray(<<>>)}}
    \cup {[json |-> TRUE, value |-> JObject(d)] :
            d \in WellFormedDocuments \cup ResizedDocuments \cup OddDocuments}

\* one request is answered
Exchange(request, shared, r) ==
    /\ history' = Append(history, [request |-> request, shared |-> shared,
                                   response |-> r.response, scoring |-> r.scoring])
    /\ lastIndex' = r.lastIndex
    /\ UNCHANGED intervening

PostGenerate ==
    \E request \in Requests, shared \in SHARED_MODULES :
        /\ Len(history) = 0
        /\ Exchange(request, shared, PostGenerateHandler(request, shared, lastIndex))

ApiSpec == Init /\ [][PostGenerate]_vars

(***************************************************************************)
(* The helpers computeClarity, isLikelyScreenshotFilename and               *)
(* computeWeightedScore on their own                                       *)
(***************************************************************************)
\* bound of the model: the number of words of a corpus given to computeClarity
MaxWords == 9

\* words of 1, 5, 24 and 25 characters
CLARITY_WORDS == <<"a", "notes", SubSeq(LowerAlphabet, 1, 24), SubSeq(LowerAlphabet, 1, 25)>>

\* the corpus of n[k] copies of the k-th word, for each k, separated by sep
\* and closed by end
ClarityCorpus(n, sep, end) ==
    join(Flatten([k \in 1..Len(CLARITY_WORDS) |-> [i \in 1..n[k] |-> CLARITY_WORDS[k]]]),
         sep) \o end

\* corpora of up to MaxWords words, and corpora of one word repeated up to
\* 61 times that are closed by up to ten '!' and '?'
ClarityCorpora ==
    {ClarityCorpus(n, sep, end) :
        n \in {m \in [1..Len(CLARITY_WORDS) -> 0..MaxWords] :
                  m[1] + m[2] + m[3] + m[4] <= MaxWords},
        sep \in {" ", " \t "}, end \in {"", "!", " ?"}}
    \cup {ClarityCorpus([k \in 1..Len(CLARITY_WORDS) |-> IF k = w THEN n ELSE 0], " ", end) :
             w \in {1, 2}, n \in {3, 39, 40, 41, 59, 60, 61},
             end \in {"", "!", "!?", " ! ?", " ! ? !", "!!!", " !!!!!!!!!!"}}

\* captions put together from a lead, a prefix, a separator, letters,
\* digits and a tail
CaptionSamples ==
    {lead \o prefix \o sep \o letters \o digits \o tail :
        lead \in {"", " "}, prefix \in {"", "img", "Screenshot", "snap"},
        sep \in {"", "_", "-", " ", "/", "\\"}, letters \in {"", "ab"},
        digits \in {"", "7"}, tail \in {"", "_x-2", ".png", ".JPEG", ".txt", " png", "!"}}

\* computeClarity(corpus), as scoreCopy calls it
ComputeClarity ==
    \E corpus \in ClarityCorpora :
        /\ Len(history) = 0
        /\ history' = <<[call |-> "computeClarity", input |-> corpus,
                         outcome |-> computeClarity(corpus)]>>
        /\ UNCHANGED <<lastIndex, intervening>>

Classified(caption, r) ==
    /\ history' = <<[call |-> "isLikelyScreenshotFilename", input |-> caption,
                     outcome |-> r.result]>>
    /\ lastIndex' = r.lastIndex
    /\ UNCHANGED intervening

\* isLikelyScreenshotFilename(value), as the filter of buildCorpus calls it
Classify ==
    \E caption \in CaptionSamples :
        /\ Len(history) = 0
        /\ Classified(caption, isLikelyScreenshotFilename(caption, lastIndex))

\* breakdowns within the bounds of the sub-scores: every clarity, and the
\* least, a middle and the greatest value of the others
Breakdowns ==
    [cta : {0, 20}, benefit : {0, 10, 20}, clarity : 0..20,
     numeric : {0, 5, 10, 15, 20}, emotion : {0, 5, 20}, category : {0, 12, 25}]

\* computeWeightedScore(breakdown), as scoreCopy calls it
ComputeWeightedScore ==
    \E breakdown \in Breakdowns :
        /\ Len(history) = 0
        /\ history' = <<[call |-> "computeWeightedScore", input |-> breakdown,
                         outcome |-> computeWeightedScore(breakdown)]>>
        /\ UNCHANGED <<lastIndex, intervening>>

HelperNext == ComputeClarity \/ Classify \/ ComputeWeightedScore

HelperSpec == Init /\ [][HelperNext]_vars

(***************************************************************************)
(* Properties of the observed calls                                        *)
(***************************************************************************)
Calls == 1..Len(history)

Returns(k) == history[k].outcome.status = "returned"

ResultOf(k) == history[k].outcome

Occurrences(seq, c) == Cardinality({n \in 1..Len(seq) : seq[n] = c})

Contains(list, m) == \E n \in 1..Len(list) : list[n] = m

NoDigit(text) == \A i \in 1..Len(text) : SubSeq(text, i, i) \notin Digits

\* the corpus that the keyword counts of a call are taken from
CorpusOf(input) == Corpus(input, input.screenshots)

\* the whole words of a text: its maximal runs of letters, digits and
\* underscores, in lower case
WholeWords(text) == Runs(toLowerCase(text), WordChars, TRUE)

\* the number of whole words that are keywords of the list
CountIn(tokens, keywords) ==
    Cardinality({k \in 1..Len(tokens) : \E n \in 1..Len(keywords) : tokens[k] = keywords[n]})

WholeWordCount(text, keywords) == CountIn(WholeWords(text), keywords)

\* the six captions are numbered screenshot file names
FilenamesOnly(input) ==
    \A i \in 1..Len(input.screenshots) :
        \E n \in 1..NumCaptions : input.screenshots[i] = FileName(n)

\* C1: whenever scoreCopy returns, the score is an integer in 0..100, each
\* of cta, benefit, clarity, numeric and emotion lies in 0..20 and category
\* lies in 0..25.
C1_ScoresWithinBounds ==
    \A k \in Calls : Returns(k) =>
        /\ ResultOf(k).score \in 0..100
        /\ ResultOf(k).breakdown.cta \in 0..20
        /\ ResultOf(k).breakdown.benefit \in 0..20
        /\ ResultOf(k).breakdown.clarity \in 0..20
        /\ ResultOf(k).breakdown.numeric \in 0..20
        /\ ResultOf(k).breakdown.emotion \in 0..20
        /\ ResultOf(k).breakdown.category \in 0..25

\* a returned result whose category ratio lies above the bound: two of the
\* four words of the corpus are category keywords
C1_Witness ==
    \E k \in Calls :
        /\ Returns(k)
        /\ Len(extractWords(CorpusOf(history[k].input))) = 4
        /\ WholeWordCount(CorpusOf(history[k].input),
                          CategoryMapGet(categoryKey(history[k].input)).keywords) = 2
        /\ ResultOf(k).breakdown.category = 25

\* C2: scoreCopy never throws: every call returns a complete result, for
\* every app name, every category string and every six captions.
C2_NeverThrows == \A k \in Calls : Returns(k)

\* C3: the recommendation list that scoreCopy returns is never empty and
\* holds at most 6 messages.
C3_RecommendationSize ==
    \A k \in Calls : Returns(k) =>
        Len(ResultOf(k).recommendation) >= 1 /\ Len(ResultOf(k).recommendation) <= 6

\* a returned result in which no sub-score called for advice
C3_Witness ==
    \E k \in Calls :
        /\ Returns(k)
        /\ \A f \in DOMAIN ResultOf(k).breakdown : ResultOf(k).breakdown[f] >= 12
        /\ ResultOf(k).recommendation = <<GREAT_MESSAGE>>

\* C4: two calls with identical input have identical outcomes (score,
\* breakdown and recommendation), whatever other calls ran before or
\* between them.
C4_SameInputSameOutcome ==
    \A i, j \in Calls :
        history[i].input = history[j].input => history[i].outcome = history[j].outcome

\* the same input scored twice, with file-name captions to filter, and a
\* call with another input made besides
C4_Witness ==
    /\ Len(history) = 2
    /\ history[1].input = history[2].input
    /\ intervening >= 1
    /\ Returns(2)
    /\ \E i \in 1..NumCaptions : history[2].input.screenshots[i] = FileName(i)

\* the two inputs differ in the order of their captions at most
SameUpToOrder(a, b) ==
    /\ a.appName = b.appName
    /\ a.category = b.category
    /\ Len(a.screenshots) = Len(b.screenshots)
    /\ \A n \in 1..Len(a.screenshots) :
          Occurrences(a.screenshots, a.screenshots[n])
              = Occurrences(b.screenshots, a.screenshots[n])

\* C5: caption order is irrelevant: two calls whose inputs differ only in
\* the order of the six captions have the same score, breakdown and
\* recommendation.
C5_CaptionOrderIrrelevant ==
    \A i, j \in Calls :
        SameUpToOrder(history[i].input, history[j].input)
            => history[i].outcome = history[j].outcome

\* C6: when all six captions are numbered screenshot file names and app
\* name and category hold no digit, the numeric sub-score is at most 5 and
\* the recommendation holds the numeric-proof-point advice.
C6_FilenamesAddNoNumeric ==
    \A k \in Calls :
        (/\ Returns(k)
         /\ FilenamesOnly(history[k].input)
         /\ NoDigit(history[k].input.appName)
         /\ NoDigit(history[k].input.category))
        => /\ ResultOf(k).breakdown.numeric <= 5
           /\ Contains(ResultOf(k).recommendation, NUMERIC_MESSAGE)

\* a returned result for six file names, of which img-2.png and img-5.png
\* hold a number behind a word boundary
C6_Witness ==
    \E k \in Calls :
        /\ Returns(k)
        /\ FilenamesOnly(history[k].input)
        /\ Contains(history[k].input.screenshots, "img-2.png")
        /\ ResultOf(k).breakdown.numeric = 0
        /\ Contains(ResultOf(k).recommendation, NUMERIC_MESSAGE)

\* app name and category hold no whole-word keyword of the CTA, benefit and
\* emotion lists nor of the list that the category selects
KeywordFree(input) ==
    /\ WholeWordCount(input.appName \o " " \o input.category, CTA_KEYWORDS) = 0
    /\ WholeWordCount(input.appName \o " " \o input.category, BENEFIT_KEYWORDS) = 0
    /\ WholeWordCount(input.appName \o " " \o input.category, EMOTION_KEYWORDS) = 0
    /\ WholeWordCount(input.appName \o " " \o input.category,
                      CategoryMapGet(categoryKey(input)).keywords) = 0

\* C7, as stated: when all six captions are numbered screenshot file names
\* and the input holds no other numeric text, the score is at most 30, for
\* every app name and category.
C7_FilenamesScoreAtMost30 ==
    \A k \in Calls :
        (/\ Returns(k)
         /\ FilenamesOnly(history[k].input)
         /\ NoDigit(history[k].input.appName)
         /\ NoDigit(history[k].input.category))
        => ResultOf(k).score <= 30

\* C7, amended: when all six captions are numbered screenshot file names,
\* the input holds no other numeric text and app name and category hold no
\* whole-word keyword of the CTA, benefit, emotion or selected category
\* list, the score is at most 30.
C7_KeywordFreeFilenamesScoreAtMost30 ==
    \A k \in Calls :
        (/\ Returns(k)
         /\ FilenamesOnly(history[k].input)
         /\ NoDigit(history[k].input.appName)
         /\ NoDigit(history[k].input.category)
         /\ KeywordFree(history[k].input))
        => ResultOf(k).score <= 30

\* a returned result for six file names under a keyword-free app name and
\* category, scored on clarity alone
C7_Witness ==
    \E k \in Calls :
        /\ Returns(k)
        /\ FilenamesOnly(history[k].input)
        /\ KeywordFree(history[k].input)
        /\ ResultOf(k).breakdown.clarity = 20
        /\ ResultOf(k).score = 15

\* app name and captions, without the category
NameAndCaptions(input) == input.appName \o " " \o join(input.screenshots, " ")

\* call i scores under Productivity and call j under Finance the same app
\* name and captions, which hold a productivity keyword and no finance
\* keyword as a whole word
CategoryPair(i, j) ==
    /\ Returns(i)
    /\ Returns(j)
    /\ history[i].input.category = "Productivity"
    /\ history[j].input.category = "Finance"
    /\ history[i].input.appName = history[j].input.appName
    /\ history[i].input.screenshots = history[j].input.screenshots
    /\ WholeWordCount(NameAndCaptions(history[i].input), CATEGORY_MAP.productivity) >= 1
    /\ WholeWordCount(NameAndCaptions(history[i].input), CATEGORY_MAP.finance) = 0

\* C8, as stated: for the same app name and captions with at least one
\* productivity keyword and no finance keyword, Productivity yields a
\* strictly higher category sub-score and a strictly higher score than
\* Finance.
C8_MatchingCategoryScoresHigher ==
    \A i, j \in Calls :
        CategoryPair(i, j)
        => /\ ResultOf(i).breakdown.category > ResultOf(j).breakdown.category
           /\ ResultOf(i).score > ResultOf(j).score

\* C8, amended: when in addition the corpus holds between 5 and 133 words,
\* Productivity yields a strictly higher category sub-score than Finance,
\* and a strictly higher score whenever the clarity sub-score is the same
\* under both categories.
C8_MatchingCategoryScoresHigherInRange ==
    \A i, j \in Calls :
        (/\ CategoryPair(i, j)
         /\ Len(extractWords(CorpusOf(history[i].input))) >= 5
         /\ Len(extractWords(CorpusOf(history[i].input))) <= 133)
        => /\ ResultOf(i).breakdown.category > ResultOf(j).breakdown.category
           /\ (ResultOf(i).breakdown.clarity = ResultOf(j).breakdown.clarity
                  => ResultOf(i).score > ResultOf(j).score)

\* such a pair with a corpus of at least five words, neither category
\* sub-score at the bound
C8_Witness ==
    \E i, j \in Calls :
        /\ CategoryPair(i, j)
        /\ Len(extractWords(CorpusOf(history[i].input))) >= 5
        /\ ResultOf(j).breakdown.category > 0
        /\ ResultOf(i).breakdown.category < 25
        /\ ResultOf(i).breakdown.category > ResultOf(j).breakdown.category

\* the input of call j is that of call i with one more CTA keyword
KeywordAdded(i, j) ==
    \E n \in 1..Len(CTA_KEYWORDS) :
        history[j].input = WithKeyword(history[i].input, CTA_KEYWORDS[n])

\* C9: one more whole-word occurrence of a CTA keyword raises cta by
\* exactly 5 when the corpus held fewer than 4 occurrences, and leaves cta
\* at 20 when it held 4 or more.
C9_OneMoreCtaKeyword ==
    \A i, j \in Calls :
        (Returns(i) /\ Returns(j) /\ KeywordAdded(i, j))
        => IF WholeWordCount(CorpusOf(history[i].input), CTA_KEYWORDS) < 4
           THEN ResultOf(j).breakdown.cta = ResultOf(i).breakdown.cta + 5
           ELSE ResultOf(i).breakdown.cta = 20 /\ ResultOf(j).breakdown.cta = 20

\* a second "get" added to a corpus that holds three CTA keywords
C9_Witness ==
    \E i, j \in Calls :
        /\ Returns(i)
        /\ Returns(j)
        /\ KeywordAdded(i, j)
        /\ WholeWordCount(CorpusOf(history[i].input), CTA_KEYWORDS) = 3
        /\ WholeWordCount(CorpusOf(history[j].input), <<"get">>) = 2
        /\ ResultOf(j).breakdown.cta = 20

\* the keyword sub-scores of a breakdown are those of the whole words
WholeWordScores(breakdown, tokens, categoryKeywords) ==
    /\ breakdown.cta = Min(5 * CountIn(tokens, CTA_KEYWORDS), 20)
    /\ breakdown.emotion = Min(5 * CountIn(tokens, EMOTION_KEYWORDS), 20)
    /\ CountIn(tokens, BENEFIT_KEYWORDS) = 0 => breakdown.benefit = 0
    /\ CountIn(tokens, categoryKeywords) = 0 => breakdown.category = 0

\* C10: keyword matching is whole-word only: cta and emotion count the
\* whole words of the corpus that are keywords, and a list none of whose
\* keywords is a whole word of the corpus adds nothing to its sub-score,
\* whatever longer words contain the keywords.
C10_WholeWordsOnly ==
    \A k \in Calls :
        Returns(k) => WholeWordScores(ResultOf(k).breakdown,
                                      WholeWords(CorpusOf(history[k].input)),
                                      CategoryMapGet(categoryKey(history[k].input)).keywords)

\* a returned result for a corpus in which love, free and save occur inside
\* longer words only
C10_Witness ==
    \E k \in Calls :
        /\ Returns(k)
        /\ Contains(history[k].input.screenshots, "Lovely freedom saved")
        /\ WholeWordCount(CorpusOf(history[k].input), CTA_KEYWORDS) = 0
        /\ ResultOf(k).breakdown.cta = 0
        /\ ResultOf(k).breakdown.emotion = 0
        /\ ResultOf(k).breakdown.benefit = 0

\* C11: for every category whose trimmed, lowercased form is no key of the
\* category table, the keyword list is empty and the call returns a
\* category sub-score of 0, whatever the app name and the captions are.
C11_UnknownCategoryScoresZero ==
    \A k \in Calls :
        categoryKey(history[k].input) \notin DOMAIN CATEGORY_MAP =>
            /\ CategoryMapGet(categoryKey(history[k].input)).kind = "undefined"
            /\ Returns(k)
            /\ ResultOf(k).breakdown.category = 0

\* the two inputs differ in the case of their letters only
SameUpToCase(a, b) ==
    /\ toLowerCase(a.appName) = toLowerCase(b.appName)
    /\ toLowerCase(a.category) = toLowerCase(b.category)
    /\ \A i \in 1..NumCaptions :
         toLowerCase(a.screenshots[i]) = toLowerCase(b.screenshots[i])

\* C12: scoring is case-insensitive: two calls whose inputs differ only in
\* the letter case of the category, of the app name or of captions have the
\* same outcome (score, breakdown and recommendation).
C12_CaseInsensitive ==
    \A i, j \in Calls :
        SameUpToCase(history[i].input, history[j].input) =>
            history[i].outcome = history[j].outcome

\* an input scored as typed and once more with its category in capitals:
\* "PRODUCTIVITY" still selects the keyword list of productivity
C12_Witness ==
    \E i, j \in Calls :
        /\ history[i].input # history[j].input
        /\ SameUpToCase(history[i].input, history[j].input)
        /\ Returns(j)
        /\ history[j].input.category = "PRODUCTIVITY"
        /\ ResultOf(j).breakdown.category > 0

(***************************************************************************)
(* Properties of the answered requests                                     *)
(***************************************************************************)
\* the body is JSON text for an object
ObjectBody(request) == request.json /\ request.value.type = "object"

\* a body holding a string appName, a string category and exactly six
\* screenshot strings
SixCaptionBody(request) ==
    /\ ObjectBody(request)
    /\ REQUEST_FIELDS \subseteq DOMAIN request.value.fields
    /\ request.value.fields.appName.type = "string"
    /\ request.value.fields.category.type = "string"
    /\ request.value.fields.screenshots.type = "array"
    /\ Len(request.value.fields.screenshots.items) = 6
    /\ \A i \in 1..6 : request.value.fields.screenshots.items[i].type = "string"

\* C13: POST /generate with a body holding a string appName, a string
\* category and exactly six screenshot strings is answered with status 200,
\* non-empty variants A, B and C, a score in 0..100 and a non-empty
\* recommendation list: the response passes GenerateResponseSchema.
C13_SixCaptionRequestSucceeds ==
    \A k \in Calls : SixCaptionBody(history[k].request) =>
        /\ history[k].response.status = 200
        /\ Len(history[k].response.body.variants.A) > 0
        /\ Len(history[k].response.body.variants.B) > 0
        /\ Len(history[k].response.body.variants.C) > 0
        /\ history[k].response.body.score \in 0..100
        /\ Len(history[k].response.body.recommendation) > 0

\* the body holds a screenshots array whose length is not six
WrongCaptionCount(request) ==
    /\ ObjectBody(request)
    /\ "screenshots" \in DOMAIN request.value.fields
    /\ request.value.fields.screenshots.type = "array"
    /\ Len(request.value.fields.screenshots.items) # 6

\* C14: POST /generate with a screenshots array whose length is not six is
\* answered with status 400, ok = false and error.fieldErrors.screenshots
\* set, and scoreCopy is not invoked for the request.
C14_WrongCaptionCountRejected ==
    \A k \in Calls : WrongCaptionCount(history[k].request) =>
        /\ history[k].response.status = 400
        /\ history[k].response.body.ok = FALSE
        /\ "screenshots" \in history[k].response.body.error.fieldErrors
        /\ ~history[k].scoring.invoked

\* a request with five captions, all strings, besides a string appName and
\* a string category: the length is all that is wrong with it
C14_Witness ==
    \E k \in Calls :
        /\ WrongCaptionCount(history[k].request)
        /\ Len(history[k].request.value.fields.screenshots.items) = 5
        /\ history[k].response.status = 400
        /\ history[k].response.body.error.fieldErrors = {"screenshots"}
        /\ lastIndex = [image |-> 0, generic |-> 0, numeric |-> 0, word |-> 0]

(***************************************************************************)
(* Properties of the helper calls                                          *)
(***************************************************************************)
\* the number of whitespace-separated words of a text: the positions at
\* which a word begins
WordCount(text) ==
    Cardinality({i \in 1..Len(text) :
                    /\ CharAt(text, i) \notin Whitespace
                    /\ i = 1 \/ CharAt(text, i - 1) \in Whitespace})

\* the number of characters that the words of a text have together
WordCharCount(text) ==
    Cardinality({i \in 1..Len(text) : CharAt(text, i) \notin Whitespace})

\* some word of the text has more than n characters
HasWordLongerThan(text, n) ==
    \E i \in 1..Len(text) - n : \A j \in i..i + n : CharAt(text, j) \notin Whitespace

EightPlainWords(text) ==
    /\ WordCount(text) = 8
    /\ \A i \in 1..Len(text) : CharAt(text, i) \notin {"!", "?"}

\* C15: for a corpus of exactly 8 whitespace-separated words without '!'
\* and '?', computeClarity gives 10 + 6 + 2 = 18, plus 2 when the average
\* word length lies in [4, 9], minus 2 when some word is longer than 24
\* characters: one of 16, 18 and 20.
C15_EightPlainWordsClarity ==
    \A k \in Calls :
        (history[k].call = "computeClarity" /\ EightPlainWords(history[k].input)) =>
            /\ history[k].outcome =
                 18 + (IF /\ WordCharCount(history[k].input) >= 4 * 8
                          /\ WordCharCount(history[k].input) <= 9 * 8
                       THEN 2 ELSE 0)
                    - (IF HasWordLongerThan(history[k].input, 24) THEN 2 ELSE 0)
            /\ history[k].outcome \in {16, 18, 20}

\* eight plain words, some of 25 characters, of more than 9 characters on
\* average: clarity 16
C15_Witness ==
    \E k \in Calls :
        /\ history[k].call = "computeClarity"
        /\ EightPlainWords(history[k].input)
        /\ HasWordLongerThan(history[k].input, 24)
        /\ WordCharCount(history[k].input) > 9 * 8
        /\ history[k].outcome = 16

\* four times the weighted sum of a breakdown: the weights 1, 1, 0.75, 0.5,
\* 0.5 and 1
FourfoldSum(b) ==
    4 * b.cta + 4 * b.benefit + 3 * b.clarity + 2 * b.numeric + 2 * b.emotion
    + 4 * b.category

\* C16: the overall score is the weighted sum cta + benefit + 0.75 clarity
\* + 0.5 numeric + 0.5 emotion + category rounded to the nearest integer,
\* halves rounding up: floor((4 cta + 4 benefit + 3 clarity + 2 numeric
\* + 2 emotion + 4 category + 2) / 4), for every breakdown within the bounds.
C16_ScoreIsRoundedWeightedSum ==
    \A k \in Calls : history[k].call = "computeWeightedScore" =>
        history[k].outcome = (FourfoldSum(history[k].input) + 2) \div 4

\* a breakdown whose weighted sum ends in .5, which is rounded up
C16_Witness ==
    \E k \in Calls :
        /\ history[k].call = "computeWeightedScore"
        /\ FourfoldSum(history[k].input) % 4 = 2
        /\ 4 * history[k].outcome = FourfoldSum(history[k].input) + 2

\* the six dimensions in the order of their checks, and their messages
DIMENSIONS == <<"cta", "benefit", "clarity", "numeric", "emotion", "category">>

ADVISORY_MESSAGES ==
    <<CTA_MESSAGE, BENEFIT_MESSAGE, CLARITY_MESSAGE, NUMERIC_MESSAGE, EMOTION_MESSAGE,
      CATEGORY_MESSAGE>>

\* the place of a message in the fixed order, 0 for any other string
Rank(m) ==
    IF \E d \in 1..6 : ADVISORY_MESSAGES[d] = m
    THEN CHOOSE d \in 1..6 : ADVISORY_MESSAGES[d] = m
    ELSE 0

\* C17: the advisory messages of the recommendation list are exactly those
\* of the dimensions whose sub-score is below 12, one message for each such
\* dimension, in the order CTA, Benefit, Clarity, Numeric, Emotion, Category.
C17_AdviceForLowDimensionsInOrder ==
    \A k \in Calls : Returns(k) =>
        /\ \A d \in 1..6 :
             Occurrences(ResultOf(k).recommendation, ADVISORY_MESSAGES[d])
               = IF ResultOf(k).breakdown[DIMENSIONS[d]] < 12 THEN 1 ELSE 0
        /\ \A i, j \in 1..Len(ResultOf(k).recommendation) :
             (i < j /\ Rank(ResultOf(k).recommendation[j]) > 0) =>
                 Rank(ResultOf(k).recommendation[i]) < Rank(ResultOf(k).recommendation[j])

\* a result with advice for some dimensions and none for others in between:
\* CTA and clarity are fine, benefit and category are not
C17_Witness ==
    \E k \in Calls :
        /\ Returns(k)
        /\ ResultOf(k).breakdown.cta >= 12
        /\ ResultOf(k).breakdown.benefit < 12
        /\ ResultOf(k).breakdown.clarity >= 12
        /\ ResultOf(k).breakdown.category < 12
        /\ Contains(ResultOf(k).recommendation, BENEFIT_MESSAGE)
        /\ Contains(ResultOf(k).recommendation, CATEGORY_MESSAGE)

\* C18: the recommendation list is the single message GREAT_MESSAGE if and
\* only if all six sub-scores are at least 12, and GREAT_MESSAGE never
\* stands in a list together with an advisory message.
C18_AffirmationIffNoLowDimension ==
    \A k \in Calls : Returns(k) =>
        /\ (ResultOf(k).recommendation = <<GREAT_MESSAGE>>)
             <=> (\A d \in 1..6 : ResultOf(k).breakdown[DIMENSIONS[d]] >= 12)
        /\ Contains(ResultOf(k).recommendation, GREAT_MESSAGE) =>
               Len(ResultOf(k).recommendation) = 1

\* a result whose sub-scores are all 12 or more next to one, of the same
\* app name and captions under another category, with a low category score
C18_Witness ==
    \E i, j \in Calls :
        /\ Returns(i) /\ Returns(j)
        /\ ResultOf(i).recommendation = <<GREAT_MESSAGE>>
        /\ ResultOf(i).breakdown.category >= 12
        /\ ResultOf(j).breakdown.category < 12
        /\ ~Contains(ResultOf(j).recommendation, GREAT_MESSAGE)

\* the numeric signals matched in the numeric corpus of an input, in the
\* order of the scan
NumericSignals(input) == NumericMatches(buildCorpus(input, TRUE, lastIndex).corpus)

\* the number of distinct strings of a list after trimming: the entries
\* that no earlier entry equals
DistinctTrimmed(seq) ==
    Cardinality({n \in 1..Len(seq) : \A m \in 1..n - 1 : trim(seq[m]) # trim(seq[n])})

\* C19: numeric = min(20, 5 * d), d being the number of distinct matched
\* numeric-signal strings (after trimming) of the numeric corpus: a signal
\* that occurs in several captions counts once, signals that differ as
\* text count separately.
C19_NumericCountsDistinctSignals ==
    \A k \in Calls : Returns(k) =>
        ResultOf(k).breakdown.numeric
          = Min(20, 5 * DistinctTrimmed(NumericSignals(history[k].input)))

\* two captions that both say "Top 5": the signal "5" is matched twice and
\* counts once
C19_Witness ==
    \E k \in Calls :
        /\ Returns(k)
        /\ history[k].input.screenshots[1] = "Top 5"
        /\ history[k].input.screenshots[2] = "Top 5"
        /\ NumericSignals(history[k].input) = <<"5", "5">>
        /\ ResultOf(k).breakdown.numeric = 5

\* the text is s followed by letters only (possibly none)
LettersBehind(text, s) ==
    /\ LiteralAt(text, 1, s)
    /\ \A i \in Len(s) + 1..Len(text) : CharAt(text, i) \in LowerLetters

\* an optional prefix, an optional '_' or '-', and letters
FilenameHead(text) ==
    \E p \in {"", "img", "image", "screenshot", "screen", "shot", "capture", "photo",
              "pic", "ss"} :
        \E sep \in {"", "_", "-"} : LettersBehind(text, p \o sep)

\* the shape of a numbered file name: a head as above up to the first digit,
\* and behind that digit only characters of [a-z0-9_-]
NumberedName(text) ==
    \E d \in 1..Len(text) :
        /\ CharAt(text, d) \in Digits
        /\ FilenameHead(SubSeq(text, 1, d - 1))
        /\ \A i \in d + 1..Len(text) :
             CharAt(text, i) \in LowerLetters \cup Digits \cup {"_", "-"}

EndsInImageExtension(text) ==
    \E ext \in {"png", "jpg", "jpeg", "webp", "gif", "bmp", "svg", "heic", "heif", "tif",
                "tiff", "avif"} :
        /\ Len(text) > Len(ext)
        /\ SubSeq(text, Len(text) - Len(ext), Len(text)) = "." \o ext

\* filename-like, told from the trimmed and lowercased caption
FilenameLike(text) ==
    /\ text # ""
    /\ \/ \E i \in 1..Len(text) : CharAt(text, i) \in {"/", "\\"}
       \/ EndsInImageExtension(text)
       \/ NumberedName(text)

\* C20: a caption is classified filename-like exactly when, trimmed and
\* lowercased, it is non-empty and contains '/' or '\', or ends in a known
\* image extension, or consists of an optional prefix, an optional '_' or
\* '-', letters, at least one digit and then characters of [a-z0-9_-]; an
\* empty or whitespace-only caption is not filename-like.
C20_FilenameLikeShape ==
    \A k \in Calls : history[k].call = "isLikelyScreenshotFilename" =>
        history[k].outcome = FilenameLike(toLowerCase(trim(history[k].input)))

\* a caption with a prefix, an underscore and a digit, given with a leading
\* blank and capitals, which has neither a separator nor an extension
C20_Witness ==
    \E k \in Calls :
        /\ history[k].call = "isLikelyScreenshotFilename"
        /\ history[k].input = " Screenshot_7"
        /\ history[k].outcome = TRUE

\* the request reached scoreCopy and scoreCopy returned
Scoring(k) == history[k].scoring.invoked /\ history[k].scoring.outcome.status = "returned"

\* the input that the request handed to scoreCopy
InputOf(k) == ParsedData(history[k].request.value.fields)

\* a caption that is not filename-like
TextCaption(caption) == ~FilenameLike(toLowerCase(trim(caption)))

\* app name, category and the given captions, joined by blanks, in lower case
TextOf(input, captions) ==
    toLowerCase(input.appName \o " " \o input.category \o " " \o join(captions, " "))

\* the sub-scores of a breakdown are those of the text full, but for
\* numeric, which is that of the text numericText
SubScoresOver(breakdown, full, numericText, categoryKeywords) ==
    /\ breakdown.cta = ctaScore(full)
    /\ breakdown.benefit = benefitScore(full, Max(Len(extractWords(full)), 1))
    /\ breakdown.clarity = computeClarity(full)
    /\ breakdown.emotion = emotionScore(full)
    /\ breakdown.category
         = categoryScore(full, Max(Len(extractWords(full)), 1), categoryKeywords)
    /\ breakdown.numeric = numericScore(NumericMatches(numericText))

\* C21: whether a caption is filename-like affects the numeric sub-score
\* only: cta, benefit, clarity, emotion and category are computed over app
\* name, category and all six captions, numeric over app name, category and
\* the captions that are not filename-like.
C21_FilenamesAffectNumericOnly ==
    \A k \in Calls : Scoring(k) =>
        SubScoresOver(history[k].scoring.outcome.breakdown,
                      TextOf(InputOf(k), InputOf(k).screenshots),
                      TextOf(InputOf(k),
                             SelectSeq(InputOf(k).screenshots, TextCaption)),
                      CategoryMapGet(categoryKey(InputOf(k))))

\* a scored request with filename-like captions whose numbers would count
\* (img-2.png) and whose words do count for clarity
C21_Witness ==
    \E k \in Calls :
        /\ Scoring(k)
        /\ Len(SelectSeq(InputOf(k).screenshots, TextCaption)) < NumCaptions
        /\ history[k].scoring.outcome.breakdown.numeric
             # numericScore(NumericMatches(TextOf(InputOf(k),
                                                  InputOf(k).screenshots)))
        /\ history[k].scoring.outcome.breakdown.clarity
             # computeClarity(TextOf(InputOf(k),
                                     SelectSeq(InputOf(k).screenshots,
                                               TextCaption)))

\* the two inputs differ only in the white space between their words
SameUpToWhitespace(a, b) ==
    /\ collapseWhitespace(a.appName) = collapseWhitespace(b.appName)
    /\ collapseWhitespace(a.category) = collapseWhitespace(b.category)
    /\ \A i \in 1..NumCaptions :
         collapseWhitespace(a.screenshots[i]) = collapseWhitespace(b.screenshots[i])

\* C22: the corpus is app name, category and the space-joined captions,
\* lowercased and with every run of white space collapsed to one blank: two
\* calls whose inputs differ only in the amount or kind of white space
\* between the same words return the same score and breakdown.
C22_WhitespaceIrrelevant ==
    \A i, j \in Calls :
        (/\ Returns(i) /\ Returns(j)
         /\ SameUpToWhitespace(history[i].input, history[j].input))
        => /\ ResultOf(i).score = ResultOf(j).score
           /\ ResultOf(i).breakdown = ResultOf(j).breakdown

\* the number of words of a text: its maximal runs of lowercase letters and
\* digits, once lowercased
RunCount(text) == Len(Runs(toLowerCase(text), LowerLetters \cup Digits, TRUE))

\* the share of the whole words of a text that are keywords of the list,
\* times k, rounded to the nearest integer (a half rounding up) and capped
CappedShare(text, keywords, k, cap) ==
    Min(cap, RoundDiv(k * WholeWordCount(text, keywords), Max(1, RunCount(text))))

\* C23: benefit = min(20, round(60 * b / max(1, w))), b being the number of
\* whole-word occurrences of benefit keywords in the full corpus and w the
\* number of maximal runs of [a-z0-9] in app name, category and all
\* captions.
C23_BenefitIsCappedShare ==
    \A k \in Calls :
        Returns(k) =>
            ResultOf(k).breakdown.benefit
                = CappedShare(TextOf(history[k].input, history[k].input.screenshots),
                              <<"save", "easy", "fast", "improve", "boost", "productivity",
                                "growth">>, 60, 20)

\* a returned result whose benefit is below the cap and is a share rounded
\* up: 60 * b / w is not an integer and its fraction is a half or more
C23_Witness ==
    \E k \in Calls :
        /\ Returns(k)
        /\ ResultOf(k).breakdown.benefit \in 1..19
        /\ (2 * 60 * WholeWordCount(CorpusOf(history[k].input), BENEFIT_KEYWORDS))
               % (2 * RunCount(CorpusOf(history[k].input)))
             >= RunCount(CorpusOf(history[k].input))

\* C24: for a category present in the table, category
\* = min(25, round(100 * c / max(1, w))), c being the number of whole-word
\* occurrences of the keywords of the category in the full corpus and w the
\* corpus word count; 'utility' and 'utilities' have the same keyword list.
C24_CategoryIsCappedShare ==
    /\ CATEGORY_MAP["utility"] = CATEGORY_MAP["utilities"]
    /\ \A k \in Calls :
        (Returns(k) /\ categoryKey(history[k].input) \in DOMAIN CATEGORY_MAP)
        => ResultOf(k).breakdown.category
             = CappedShare(TextOf(history[k].input, history[k].input.screenshots),
                           CATEGORY_MAP[categoryKey(history[k].input)], 100, 25)

\* the number of characters '!' and '?' of a text
MarkCount(text) == Cardinality({i \in 1..Len(text) : CharAt(text, i) \in {"!", "?"}})

\* what the average word length and the longest word add to the clarity of
\* a text: 2 for an average in [4, 9], -2 for a word of more than 24 characters
WordShapeAdjustment(text) ==
    (IF /\ WordCount(text) > 0
        /\ WordCharCount(text) >= 4 * WordCount(text)
        /\ WordCharCount(text) <= 9 * WordCount(text)
     THEN 2 ELSE 0)
    - (IF HasWordLongerThan(text, 24) THEN 2 ELSE 0)

\* adj is the word-count adjustment that the bands give to n words
InBand(adj, n) ==
    /\ adj = 6 <=> (8 <= n /\ n <= 40)
    /\ adj = 3 <=> ((5 <= n /\ n <= 7) \/ (41 <= n /\ n <= 60))
    /\ adj = -4 <=> n < 5
    /\ adj = -5 <=> n > 60

\* C25: exactly one word-count adjustment applies to a corpus of n
\* whitespace-separated words: +6 for 8 <= n <= 40, +3 for 5 <= n <= 7 or
\* 41 <= n <= 60, -4 for n < 5 and -5 for n > 60. For a corpus without '!'
\* and '?' the clarity is 10 + 2 plus that adjustment plus what the word
\* lengths add.
C25_OneLengthBandApplies ==
    \A k \in Calls :
        (history[k].call = "computeClarity" /\ MarkCount(history[k].input) = 0) =>
            \E adj \in {6, 3, -4, -5} :
                /\ InBand(adj, WordCount(history[k].input))
                /\ \A other \in {6, 3, -4, -5} \ {adj} :
                       ~InBand(other, WordCount(history[k].input))
                /\ history[k].outcome = 12 + adj + WordShapeAdjustment(history[k].input)

\* a corpus of 41 plain words of 5 characters: clarity 10 + 3 + 2 + 2
C25_Witness ==
    \E k \in Calls :
        /\ history[k].call = "computeClarity"
        /\ MarkCount(history[k].input) = 0
        /\ WordCount(history[k].input) = 41
        /\ history[k].outcome = 17

\* two or more characters '!' or '?' stand side by side somewhere in the text
AdjacentMarks(text) ==
    \E i \in 1..Len(text) - 1 :
        CharAt(text, i) \in {"!", "?"} /\ CharAt(text, i + 1) \in {"!", "?"}

\* the punctuation adjustment of a text with p characters '!' or '?'
MarkAdjustment(p, adjacent) ==
    (IF p = 0 THEN 2 ELSE IF p <= 2 THEN 1 ELSE 0 - 2 * (p - 2))
    - (IF adjacent THEN 2 ELSE 0)

\* the value brought into [0, 20]
Within0To20(sum) == IF sum < 0 THEN 0 ELSE IF sum > 20 THEN 20 ELSE sum

\* C26: the punctuation adjustment for a corpus with p characters '!' or
\* '?' is +2 for p = 0, +1 for p = 1 or 2 and -2 * (p - 2) for p > 2, with a
\* further -2 when two or more such characters are adjacent anywhere; all
\* adjustments are summed onto the base 10 and only the final sum is clamped
\* to [0, 20].
C26_PunctuationAdjustmentSummed ==
    \A k \in Calls :
        history[k].call = "computeClarity" =>
            history[k].outcome
              = Within0To20(10 + LengthAdjustment(WordCount(history[k].input))
                               + MarkAdjustment(MarkCount(history[k].input),
                                                AdjacentMarks(history[k].input))
                               + WordShapeAdjustment(history[k].input))

\* a corpus with ten adjacent marks and four words of 4 to 9 characters on
\* average: the sum 10 - 4 - 16 - 2 + 2 is negative and the clarity is 0,
\* not the 2 that clamping before the last adjustment would give
C26_Witness ==
    \E k \in Calls :
        /\ history[k].call = "computeClarity"
        /\ MarkCount(history[k].input) = 10
        /\ AdjacentMarks(history[k].input)
        /\ WordCount(history[k].input) = 4
        /\ WordShapeAdjustment(history[k].input) = 2
        /\ history[k].outcome = 0

====
